---------------------------- MODULE Spec2Model ----------------------------
(***************************************************************************)
(* A model of lab_5_scraper/scraper.py: configuration validation, the      *)
(* rate-limited fetcher, the seed crawler, the article parser, the output  *)
(* area preparation and the driver main().                                 *)
(*                                                                         *)
(* Python values are records [t, n, s, l]: t is the Python type, n the     *)
(* numeric value (of an int or a bool: True is 1, False is 0), s the       *)
(* characters of a str (a sequence of tokens) and l the items of a list.   *)
(***************************************************************************)
EXTENDS Integers, Sequences, FiniteSets, TLC

VARIABLES
    raw,         \* content of the configuration file (ConfigDTO fields)
    config,      \* the Config object: "none" before/without construction
    error,       \* the exception that ended the run, "none" while running
    pc,          \* position in main() and its callees
    ret,         \* where make_request returns to
    web,         \* the listing page served for each seed (environment)
    site,        \* the article page served for each link (environment)
    urls,        \* Crawler.urls, the frontier
    seedIdx,     \* index of the seed the for loop of find_articles is at
    delay,       \* seconds slept by the make_request in progress, 0 if none
    response,    \* the response make_request returned last
    article_id,  \* main()'s article_id
    nextUrl,     \* index in crawler.urls of main()'s for loop
    article,     \* parser.article of the current HTMLParser
    fs,          \* the file system at base_path
    calls,       \* successive prepare_environment calls just made
    once,        \* the file system after the first call of that run of calls
    log          \* history: the operations performed so far

vars == <<raw, config, error, pc, ret, web, site, urls, seedIdx, delay,
          response, article_id, nextUrl, article, fs, calls, once, log>>

(***************************************************************************)
(* Bounds of the model.                                                    *)
(***************************************************************************)
MaxSeeds == 2
MaxLinks == 4
MaxTarget == 3
MaxParas == 2
MaxEntries == 5
MaxCalls == 3

(***************************************************************************)
(* Python values.                                                          *)
(***************************************************************************)
PyInt(k) == [t |-> "int", n |-> k, s |-> <<>>, l |-> <<>>]
PyBool(b) == [t |-> "bool", n |-> IF b THEN 1 ELSE 0, s |-> <<>>, l |-> <<>>]
PyStr(x) == [t |-> "str", n |-> 0, s |-> x, l |-> <<>>]
PyList(x) == [t |-> "list", n |-> 0, s |-> <<>>, l |-> x]
PyDict == [t |-> "dict", n |-> 0, s |-> <<>>, l |-> <<>>]
PyNone == [t |-> "NoneType", n |-> 0, s |-> <<>>, l |-> <<>>]

\* isinstance(v, int): bool is a subclass of int in Python.
IsInstanceInt(v) == v.t \in {"int", "bool"}
IsInstanceBool(v) == v.t = "bool"
IsInstanceStr(v) == v.t = "str"
IsInstanceList(v) == v.t = "list"
IsInstanceDict(v) == v.t = "dict"

\* sub in x, for strings: sub occurs in x as a contiguous run of characters.
StrContains(sub, x) ==
    \E i \in 1..(Len(x) + 1) :
        /\ i + Len(sub) - 1 <= Len(x)
        /\ SubSeq(x, i, i + Len(sub) - 1) = sub

SiteUrl == <<"http://", "vzm-vesti.ru/">>
MaxArticles == 150
MaxTimeout == 60

(***************************************************************************)
(* Config._validate_config_content: the exception raised, or "ok".         *)
(***************************************************************************)
SeedUrlsOk(v) ==
    /\ IsInstanceList(v)
    /\ \A i \in 1..Len(v.l) :
           IsInstanceStr(v.l[i]) /\ StrContains(SiteUrl, v.l[i].s)

NumArticlesOk(v) == IsInstanceInt(v) /\ ~(v.n <= 0)

NumArticlesInRange(v) == ~(v.n < 0 \/ v.n > MaxArticles)

TimeoutOk(v) == IsInstanceInt(v) /\ ~(v.n <= 0) /\ ~(v.n > MaxTimeout)

ValidateConfigContent(c) ==
    IF ~SeedUrlsOk(c.seed_urls) THEN "IncorrectSeedURLError"
    ELSE IF ~NumArticlesOk(c.total_articles)
        THEN "IncorrectNumberOfArticlesError"
    ELSE IF ~NumArticlesInRange(c.total_articles)
        THEN "NumberOfArticlesOutOfRangeError"
    ELSE IF ~IsInstanceDict(c.headers) THEN "IncorrectHeadersError"
    ELSE IF ~IsInstanceStr(c.encoding) THEN "IncorrectEncodingError"
    ELSE IF ~TimeoutOk(c.timeout) THEN "IncorrectTimeoutError"
    ELSE IF ~IsInstanceBool(c.should_verify_certificate)
            \/ ~IsInstanceBool(c.headless_mode)
        THEN "IncorrectVerifyError"
    ELSE "ok"

\* The getters of Config.
GetSeedUrls(c) == c.seed_urls.l
GetNumArticles(c) == c.total_articles.n

NoConfig == "none"

(***************************************************************************)
(* History: one record per operation performed.  idx is the position of    *)
(* the seed in the configuration or the identifier of the article, url the *)
(* article link, out the outcome, cnt the number of links the loop of      *)
(* find_articles went through and front the frontier it left.              *)
(***************************************************************************)
Ev(op, idx, url, out) ==
    [op |-> op, idx |-> idx, url |-> url, out |-> out, cnt |-> 0,
     front |-> <<>>]

EvLinks(idx, out, cnt, front) ==
    [op |-> "links", idx |-> idx, url |-> "", out |-> out, cnt |-> cnt,
     front |-> front]

Range(f) == {f[i] : i \in DOMAIN f}

\* The exception leaves main(): nothing catches it.
Raise(name) ==
    /\ error' = name
    /\ pc' = "failed"

(***************************************************************************)
(* Config.__init__, called by main().                                      *)
(***************************************************************************)
ConfigInit ==
    /\ pc = "config"
    /\ log' = Append(log, Ev("config", 0, "", ValidateConfigContent(raw)))
    /\ IF ValidateConfigContent(raw) = "ok"
          THEN /\ config' = raw
               /\ pc' = "crawler"
               /\ error' = error
          ELSE /\ config' = config
               /\ Raise(ValidateConfigContent(raw))
    /\ UNCHANGED <<raw, ret, web, site, urls, seedIdx, delay, response,
                   article_id, nextUrl, article, fs, calls, once>>

(***************************************************************************)
(* make_request: the sleep, then the GET.                                  *)
(***************************************************************************)
MinDelay == 1
MaxDelay == 5

\* time.sleep(randint(1, 5))
MakeRequestSleep ==
    /\ pc = "request_sleep"
    /\ \E d \in MinDelay..MaxDelay : delay' = d
    /\ log' = Append(log, Ev("sleep", 0, "", "ok"))
    /\ pc' = "request_get"
    /\ UNCHANGED <<raw, config, error, ret, web, site, urls, seedIdx,
                   response, article_id, nextUrl, article, fs, calls, once>>

\* The page the environment serves for the URL of the request in progress.
Served ==
    IF ret = "seed_extract" THEN web[seedIdx] ELSE site[urls[nextUrl]]

\* The request in progress, for the history: the seed's position, or the
\* article's identifier and link.
RequestIdx == IF ret = "seed_extract" THEN seedIdx ELSE article.id
RequestUrl == IF ret = "seed_extract" THEN "" ELSE article.url

\* Faulty variant: a failed GET is tried again.
MakeRequestGetRetry ==
    /\ pc = "request_get"
    /\ \/ /\ response' = Served
          /\ log' = Append(log, Ev("get", RequestIdx, RequestUrl, "ok"))
          /\ pc' = ret
          /\ delay' = 0
       \/ /\ response' = response
          /\ log' = Append(log, Ev("get", RequestIdx, RequestUrl,
                                   "RequestException"))
          /\ UNCHANGED <<pc, delay>>
    /\ UNCHANGED <<raw, config, error, ret, web, site, urls, seedIdx,
                   article_id, nextUrl, article, fs, calls, once>>

\* requests.get(...): the response, or a network failure that propagates.
MakeRequestGet ==
    /\ pc = "request_get"
    /\ delay' = 0
    /\ \/ /\ response' = Served
          /\ log' = Append(log, Ev("get", RequestIdx, RequestUrl, "ok"))
          /\ pc' = ret
          /\ error' = error
       \/ /\ response' = response
          /\ log' = Append(log, Ev("get", RequestIdx, RequestUrl,
                                   "RequestException"))
          /\ Raise("RequestException")
    /\ UNCHANGED <<raw, config, ret, web, site, urls, seedIdx, article_id,
                   nextUrl, article, fs, calls, once>>

(***************************************************************************)
(* Crawler.                                                                *)
(***************************************************************************)
\* Crawler._extract_url: the hrefs of the anchors of the first listing
\* heading; with no such heading find() gives None and None.find_all raises.
\* Faulty variant: a page without the listing heading is taken to have no link.
ExtractUrlSkip(page) == [raised |-> FALSE, url_list |-> page.links]

ExtractUrl(page) ==
    IF page.container
        THEN [raised |-> FALSE, url_list |-> page.links]
        ELSE [raised |-> TRUE, url_list |-> <<>>]

\* The inner for loop of find_articles from the k-th link on: the frontier it
\* leaves, whether it returned from find_articles, the links it went through.
RECURSIVE LinkLoop(_, _, _, _)
LinkLoop(us, url_list, k, target) ==
    IF k > Len(url_list)
        THEN [urls |-> us, returned |-> FALSE, cnt |-> k - 1]
        ELSE LET us2 == IF url_list[k] \notin Range(us)
                            THEN Append(us, url_list[k])
                            ELSE us
             IN  IF Len(us2) >= target
                     THEN [urls |-> us2, returned |-> TRUE, cnt |-> k]
                     ELSE LinkLoop(us2, url_list, k + 1, target)

\* Faulty variant: the links are appended without the membership test.
RECURSIVE LinkLoopNoDedup(_, _, _, _)
LinkLoopNoDedup(us, url_list, k, target) ==
    IF k > Len(url_list)
        THEN [urls |-> us, returned |-> FALSE, cnt |-> k - 1]
        ELSE IF Len(Append(us, url_list[k])) >= target
            THEN [urls |-> Append(us, url_list[k]), returned |-> TRUE,
                  cnt |-> k]
            ELSE LinkLoopNoDedup(Append(us, url_list[k]), url_list, k + 1,
                                 target)

ProcessLinksNoDedup(us, url_list, target) ==
    LinkLoopNoDedup(us, url_list, 1, target)

\* Faulty variant: a full frontier breaks the inner loop only, not find_articles.
ProcessLinksBreak(us, url_list, target) ==
    [LinkLoop(us, url_list, 1, target) EXCEPT !.returned = FALSE]

ProcessLinks(us, url_list, target) ==
    IF Len(url_list) # 0
        THEN LinkLoop(us, url_list, 1, target)
        ELSE [urls |-> us, returned |-> FALSE, cnt |-> 0]

\* main(): crawler = Crawler(config=configuration); crawler.find_articles()
CrawlerStart ==
    /\ pc = "crawler"
    /\ urls' = <<>>
    /\ seedIdx' = 1
    /\ log' = Append(log, Ev("find_articles", 0, "", "ok"))
    /\ pc' = "seed_loop"
    /\ UNCHANGED <<raw, config, error, ret, web, site, delay, response,
                   article_id, nextUrl, article, fs, calls, once>>

\* for seed_url in seed_urls: response = make_request(seed_url, self.config)
SeedNext ==
    /\ pc = "seed_loop"
    /\ seedIdx <= Len(GetSeedUrls(config))
    /\ log' = Append(log, Ev("fetch_seed", seedIdx, "", "ok"))
    /\ ret' = "seed_extract"
    /\ pc' = "request_sleep"
    /\ UNCHANGED <<raw, config, error, web, site, urls, seedIdx, delay,
                   response, article_id, nextUrl, article, fs, calls, once>>

\* The seeds are exhausted: find_articles falls off its loop.
SeedsExhausted ==
    /\ pc = "seed_loop"
    /\ seedIdx > Len(GetSeedUrls(config))
    /\ pc' = "prepare"
    /\ UNCHANGED <<raw, config, error, ret, web, site, urls, seedIdx, delay,
                   response, article_id, nextUrl, article, fs, calls, once,
                   log>>

\* soup = BeautifulSoup(...); url_list = self._extract_url(soup); the loop.
SeedExtract ==
    /\ pc = "seed_extract"
    /\ LET x == ExtractUrl(response)
           r == ProcessLinks(urls, x.url_list, GetNumArticles(config))
       IN  \/ /\ x.raised
              /\ Raise("AttributeError")
              /\ UNCHANGED <<urls, seedIdx, log>>
           \/ /\ ~x.raised
              /\ r.returned
              /\ urls' = r.urls
              /\ log' = Append(log, EvLinks(seedIdx, "return", r.cnt, r.urls))
              /\ pc' = "prepare"
              /\ UNCHANGED <<error, seedIdx>>
           \/ /\ ~x.raised
              /\ ~r.returned
              /\ urls' = r.urls
              /\ log' = Append(log, EvLinks(seedIdx, "next", r.cnt, r.urls))
              /\ seedIdx' = seedIdx + 1
              /\ pc' = "seed_loop"
              /\ error' = error
    /\ UNCHANGED <<raw, config, ret, web, site, delay, response, article_id,
                   nextUrl, article, fs, calls, once>>

(***************************************************************************)
(* HTMLParser.  An article page is [title, paras]: title is the <title>    *)
(* element ([present, text]), paras the <p> elements in document order,    *)
(* each [bio, kids]: whether it carries the class bio-name, and its child  *)
(* text nodes.                                                             *)
(***************************************************************************)
\* Article(url, article_id): an empty record.
ArticleNew(url, id) ==
    [url |-> url, id |-> id, text |-> <<>>, title |-> <<>>,
     author |-> PyList(<<>>)]

\* p.text: the text nodes of the element, joined.
RECURSIVE ElementText(_)
ElementText(kids) ==
    IF kids = <<>> THEN <<>> ELSE Head(kids) \o ElementText(Tail(kids))

\* for p in all_body: self.article.text += p.text
RECURSIVE TextLoop(_, _, _)
TextLoop(text, paras, k) ==
    IF k > Len(paras) THEN text
    ELSE TextLoop(text \o ElementText(paras[k].kids), paras, k + 1)

\* Faulty variant: each paragraph's text replaces the text so far.
FillArticleWithTextAssign(a, page) ==
    [a EXCEPT !.text = IF page.paras = <<>> THEN a.text
                       ELSE ElementText(page.paras[Len(page.paras)].kids)]

FillArticleWithText(a, page) ==
    [a EXCEPT !.text = TextLoop(a.text, page.paras, 1)]

\* The character U+2014, one token of a string.
EmDash == "em-dash"

\* x.split(EmDash)[0]: what precedes the first em dash.
RECURSIVE SplitHead(_)
SplitHead(x) ==
    IF x = <<>> \/ Head(x) = EmDash THEN <<>>
    ELSE <<Head(x)>> \o SplitHead(Tail(x))

\* x.strip(): without its leading and trailing white space.
RECURSIVE Strip(_)
Strip(x) ==
    IF x = <<>> THEN x
    ELSE IF Head(x) = " " THEN Strip(Tail(x))
    ELSE IF x[Len(x)] = " " THEN Strip(SubSeq(x, 1, Len(x) - 1))
    ELSE x

NotFound == <<"N", "O", "T", " ", "F", "O", "U", "N", "D">>

\* article_soup.find("p", class_="bio-name"): the first such element, if any.
HasBio(page) == \E i \in 1..Len(page.paras) : page.paras[i].bio
FirstBio(page) ==
    page.paras[CHOOSE i \in 1..Len(page.paras) :
                   /\ page.paras[i].bio
                   /\ \A j \in 1..(i - 1) : ~page.paras[j].bio]

\* list += str extends the list by the characters of the string;
\* list += Tag extends it by the children of the element.
ListPlusStr(lst, x) == PyList(lst.l \o [i \in 1..Len(x) |-> PyStr(<<x[i]>>)])
ListPlusTag(lst, p) ==
    PyList(lst.l \o [i \in 1..Len(p.kids) |-> PyStr(p.kids[i])])

AuthorOf(page) ==
    IF ~HasBio(page) THEN ListPlusStr(PyList(<<>>), NotFound)
    ELSE ListPlusTag(PyList(<<>>), FirstBio(page))

\* With no <title>, find() gives None and None.text raises.
FillArticleWithMetaInformation(a, page) ==
    IF ~page.title.present
        THEN [raised |-> TRUE, article |-> a]
        ELSE [raised |-> FALSE,
              article |-> [a EXCEPT
                  !.title = Strip(SplitHead(page.title.text)),
                  !.author = AuthorOf(page)]]

StartArticleId == 1

\* for url in crawler.urls: parser = HTMLParser(url, article_id, ...);
\* parser.parse() calls make_request.
ParseNext ==
    /\ pc = "parse_loop"
    /\ nextUrl <= Len(urls)
    /\ article' = ArticleNew(urls[nextUrl], article_id)
    /\ log' = Append(log, Ev("parse", article_id, urls[nextUrl], "ok"))
    /\ ret' = "parse_fill"
    /\ pc' = "request_sleep"
    /\ UNCHANGED <<raw, config, error, web, site, urls, seedIdx, delay,
                   response, article_id, nextUrl, fs, calls, once>>

\* The frontier is exhausted: main() returns.
MainDone ==
    /\ pc = "parse_loop"
    /\ nextUrl > Len(urls)
    /\ pc' = "done"
    /\ UNCHANGED <<raw, config, error, ret, web, site, urls, seedIdx, delay,
                   response, article_id, nextUrl, article, fs, calls, once,
                   log>>

\* Faulty variant: main() forgets article_id += 1.
ParseFillNoIncrement ==
    /\ pc = "parse_fill"
    /\ LET a == FillArticleWithText(article, response)
           m == FillArticleWithMetaInformation(a, response)
       IN  \/ /\ m.raised
              /\ article' = a
              /\ Raise("AttributeError")
           \/ /\ ~m.raised
              /\ article' = m.article
              /\ pc' = "to_raw"
              /\ error' = error
    /\ UNCHANGED <<raw, config, ret, web, site, urls, seedIdx, delay,
                   response, article_id, nextUrl, fs, calls, once, log>>

\* The rest of parse(), then article_id += 1 in main().
ParseFill ==
    /\ pc = "parse_fill"
    /\ LET a == FillArticleWithText(article, response)
           m == FillArticleWithMetaInformation(a, response)
       IN  \/ /\ m.raised
              /\ article' = a
              /\ Raise("AttributeError")
              /\ UNCHANGED article_id
           \/ /\ ~m.raised
              /\ article' = m.article
              /\ article_id' = article_id + 1
              /\ pc' = "to_raw"
              /\ error' = error
    /\ UNCHANGED <<raw, config, ret, web, site, urls, seedIdx, delay,
                   response, nextUrl, fs, calls, once, log>>

\* article_io.to_raw(parser.article): it succeeds or raises.
ToRaw ==
    /\ pc = "to_raw"
    /\ \/ /\ log' = Append(log, Ev("to_raw", article.id, article.url, "ok"))
          /\ pc' = "to_meta"
          /\ error' = error
       \/ /\ log' = Append(log, Ev("to_raw", article.id, article.url,
                                   "OSError"))
          /\ Raise("OSError")
    /\ UNCHANGED <<raw, config, ret, web, site, urls, seedIdx, delay,
                   response, article_id, nextUrl, article, fs, calls, once>>

\* article_io.to_meta(parser.article), then the next url of the loop.
ToMeta ==
    /\ pc = "to_meta"
    /\ \/ /\ log' = Append(log, Ev("to_meta", article.id, article.url, "ok"))
          /\ nextUrl' = nextUrl + 1
          /\ pc' = "parse_loop"
          /\ error' = error
       \/ /\ log' = Append(log, Ev("to_meta", article.id, article.url,
                                   "OSError"))
          /\ Raise("OSError")
          /\ UNCHANGED nextUrl
    /\ UNCHANGED <<raw, config, ret, web, site, urls, seedIdx, delay,
                   response, article_id, article, fs, calls, once>>

(***************************************************************************)
(* prepare_environment.  The file system at base_path is [kind, parent,    *)
(* entries, gen]: absent, a file or a directory; whether its parent        *)
(* directory exists; the entries of the directory; and how many            *)
(* directories the program has created there (0: the one found).           *)
(***************************************************************************)
PathExists(f) == f.kind # "absent"

\* shutil.rmtree(base_path): removes a directory with all it holds; on a
\* file it raises.
Rmtree(f) ==
    IF f.kind = "dir"
        THEN [fs |-> [f EXCEPT !.kind = "absent", !.entries = {}],
              err |-> "none"]
        ELSE [fs |-> f, err |-> "NotADirectoryError"]

\* pathlib.Path(base_path).mkdir(parents=True)
Mkdir(f) ==
    IF PathExists(f)
        THEN [fs |-> f, err |-> "FileExistsError"]
        ELSE [fs |-> [kind |-> "dir", parent |-> TRUE, entries |-> {},
                      gen |-> f.gen + 1],
              err |-> "none"]

\* Faulty variant: an existing path is kept as it is (mkdir with exist_ok).
PrepareEnvironmentKeep(f) ==
    IF PathExists(f) THEN [fs |-> f, err |-> "none"] ELSE Mkdir(f)

PrepareEnvironment(f) ==
    LET a == IF PathExists(f) THEN Rmtree(f) ELSE [fs |-> f, err |-> "none"]
    IN  IF a.err # "none" THEN a ELSE Mkdir(a.fs)

\* main(): prepare_environment(ASSETS_PATH); article_id = 1
MainPrepare ==
    /\ pc = "prepare"
    /\ fs' = PrepareEnvironment(fs).fs
    /\ log' = Append(log, Ev("prepare", 0, "", PrepareEnvironment(fs).err))
    /\ IF PrepareEnvironment(fs).err = "none"
          THEN /\ article_id' = StartArticleId
               /\ nextUrl' = 1
               /\ pc' = "parse_loop"
               /\ error' = error
          ELSE /\ Raise(PrepareEnvironment(fs).err)
               /\ UNCHANGED <<article_id, nextUrl>>
    /\ UNCHANGED <<raw, config, ret, web, site, urls, seedIdx, delay,
                   response, article, calls, once>>

\* prepare_environment called on its own, any number of times; the history
\* keeps what each call found at the path (its kind, how many entries).
CallPrepare ==
    /\ pc = "harness"
    /\ calls < MaxCalls
    /\ calls' = calls + 1
    /\ fs' = PrepareEnvironment(fs).fs
    /\ IF PrepareEnvironment(fs).err = "none"
          THEN /\ once' = IF once.n = 0
                              THEN [n |-> 1, fs |-> PrepareEnvironment(fs).fs]
                              ELSE [once EXCEPT !.n = once.n + 1]
               /\ UNCHANGED <<pc, error>>
          ELSE /\ Raise(PrepareEnvironment(fs).err)
               /\ once' = once
    /\ log' = Append(log, Ev("prepare", Cardinality(fs.entries), "", fs.kind))
    /\ UNCHANGED <<raw, config, ret, web, site, urls, seedIdx, delay,
                   response, article_id, nextUrl, article>>

\* Between two calls something is stored in the output directory.
WriteEntry ==
    /\ pc = "harness"
    /\ fs.kind = "dir"
    /\ \E e \in (1..MaxEntries) \ fs.entries :
           fs' = [fs EXCEPT !.entries = fs.entries \cup {e}]
    /\ once' = [once EXCEPT !.n = 0]
    /\ UNCHANGED <<raw, config, error, pc, ret, web, site, urls, seedIdx,
                   delay, response, article_id, nextUrl, article, calls,
                   log>>

(***************************************************************************)
(* The inputs: configuration files, listing pages, article pages, states   *)
(* of the output path.                                                     *)
(***************************************************************************)
SeqsUpTo(S, n) == UNION {[1..k -> S] : k \in 0..n}

UrlSamples ==
    { SiteUrl,
      SiteUrl \o <<"news/">>,
      <<"https://other.com/?u=">> \o SiteUrl,
      <<"http://", "other.com/", "vzm-vesti.ru/">>,
      <<"http://">> }

SeedItems == {PyStr(u) : u \in UrlSamples} \cup {PyInt(7)}

RawSeedUrls ==
    {PyList(x) : x \in SeqsUpTo(SeedItems, MaxSeeds)}
        \cup {PyNone, PyStr(SiteUrl), PyDict}

RawNumbers(limit) ==
    {PyInt(k) : k \in {-1, 0, 1, limit, limit + 1}}
        \cup {PyBool(TRUE), PyBool(FALSE), PyNone, PyStr(<<"5">>),
              PyList(<<>>)}

RawHeaders == {PyDict, PyNone, PyList(<<>>)}
RawEncodings == {PyStr(<<"utf-8">>), PyInt(8), PyNone}
RawFlags == {PyBool(TRUE), PyBool(FALSE), PyInt(1), PyStr(<<"yes">>)}

RawConfigs ==
    [seed_urls : RawSeedUrls,
     total_articles : RawNumbers(MaxArticles),
     headers : RawHeaders,
     encoding : RawEncodings,
     timeout : RawNumbers(MaxTimeout),
     should_verify_certificate : RawFlags,
     headless_mode : RawFlags]

\* A configuration file that passes validation: n seeds, a target count.
ValidRaw(n, target) ==
    [seed_urls |-> PyList([i \in 1..n |-> PyStr(SiteUrl \o <<"page/">>)]),
     total_articles |-> PyInt(target),
     headers |-> PyDict,
     encoding |-> PyStr(<<"utf-8">>),
     timeout |-> PyInt(5),
     should_verify_certificate |-> PyBool(TRUE),
     headless_mode |-> PyBool(FALSE)]

Links == {"A", "B", "C"}

\* A listing page: whether it has the listing heading, and the hrefs of the
\* anchors in it.
NoContainerPage == [container |-> FALSE, links |-> <<>>]
ListingPages(m) ==
    {[container |-> TRUE, links |-> x] : x \in SeqsUpTo(Links, m)}
        \cup {NoContainerPage}

\* The listing pages of n seeds, with at most m links in all.
RECURSIVE Webs(_, _)
Webs(n, m) ==
    IF n = 0 THEN {<<>>}
    ELSE UNION {{<<page>> \o w : w \in Webs(n - 1, m - Len(page.links))} :
                   page \in ListingPages(m)}

Text1 == <<"H", "i", " ">>
Text2 == <<"y", "o", "u">>
KidSeqs == {<<>>, <<Text1>>, <<Text2>>, <<Text1, Text2>>}
Paras == [bio : BOOLEAN, kids : KidSeqs]
Titles ==
    { [present |-> FALSE, text |-> <<>>],
      [present |-> TRUE, text |-> <<"T">>],
      [present |-> TRUE, text |-> <<" ", "T", " ", EmDash, " ", "S">>] }
ArticlePages == [title : Titles, paras : SeqsUpTo(Paras, MaxParas)]

NoFs == [kind |-> "absent", parent |-> TRUE, entries |-> {}, gen |-> 0]
FsStates ==
    {[kind |-> "absent", parent |-> p, entries |-> {}, gen |-> 0] :
        p \in BOOLEAN}
        \cup {[kind |-> "dir", parent |-> TRUE, entries |-> e, gen |-> 0] :
                e \in SUBSET (1..MaxEntries)}
        \cup {[kind |-> "file", parent |-> TRUE, entries |-> {}, gen |-> 0]}

NoOnce == [n |-> 0, fs |-> NoFs]

\* What every run starts from, whatever it is a run of.
Fresh ==
    /\ error = "none"
    /\ ret = "none"
    /\ delay = 0
    /\ response = "none"
    /\ article = ArticleNew("", 0)
    /\ calls = 0
    /\ once = NoOnce
    /\ log = <<>>

(***************************************************************************)
(* SpecConfig: Config(path) on every configuration file.                   *)
(***************************************************************************)
InitConfig ==
    /\ Fresh
    /\ raw \in RawConfigs
    /\ config = NoConfig
    /\ pc = "config"
    /\ web = <<>>
    /\ site = <<>>
    /\ urls = <<>>
    /\ seedIdx = 0
    /\ article_id = 0
    /\ nextUrl = 0
    /\ fs = NoFs

NextConfig == ConfigInit

SpecConfig == InitConfig /\ [][NextConfig]_vars

(***************************************************************************)
(* SpecCrawl: find_articles of a fresh Crawler on a validated              *)
(* configuration, for every assignment of listing pages to the seeds.      *)
(***************************************************************************)
InitCrawl ==
    /\ Fresh
    /\ \E n \in 0..MaxSeeds, target \in 1..MaxTarget :
           /\ raw = ValidRaw(n, target)
           /\ web \in Webs(n, MaxLinks)
    /\ config = raw
    /\ pc = "crawler"
    /\ site = <<>>
    /\ urls = <<>>
    /\ seedIdx = 0
    /\ article_id = 0
    /\ nextUrl = 0
    /\ fs = NoFs

NextCrawl ==
    \/ CrawlerStart
    \/ SeedNext
    \/ SeedsExhausted
    \/ MakeRequestSleep
    \/ MakeRequestGet
    \/ SeedExtract

SpecCrawl == InitCrawl /\ [][NextCrawl]_vars

(***************************************************************************)
(* SpecParse: one parse() of a freshly created HTMLParser, on every        *)
(* article page.                                                           *)
(***************************************************************************)
InitParse ==
    /\ Fresh
    /\ raw = ValidRaw(1, 1)
    /\ config = raw
    /\ pc = "parse_loop"
    /\ web = <<>>
    /\ \E page \in ArticlePages : site = [u \in {"A"} |-> page]
    /\ urls = <<"A">>
    /\ seedIdx = 0
    /\ article_id \in {StartArticleId, StartArticleId + 1}
    /\ nextUrl = 1
    /\ fs = NoFs

NextParse ==
    \/ ParseNext
    \/ MakeRequestSleep
    \/ MakeRequestGet
    \/ ParseFill

SpecParse == InitParse /\ [][NextParse]_vars

(***************************************************************************)
(* SpecPrepare: prepare_environment on every state of the path, called     *)
(* again and again, with entries stored in between.                        *)
(***************************************************************************)
InitPrepare ==
    /\ Fresh
    /\ raw = ValidRaw(1, 1)
    /\ config = raw
    /\ pc = "harness"
    /\ web = <<>>
    /\ site = <<>>
    /\ urls = <<>>
    /\ seedIdx = 0
    /\ article_id = 0
    /\ nextUrl = 0
    /\ fs \in FsStates

NextPrepare ==
    \/ CallPrepare
    \/ WriteEntry

SpecPrepare == InitPrepare /\ [][NextPrepare]_vars

(***************************************************************************)
(* Spec: main(), from the configuration file to the last stored record.    *)
(***************************************************************************)
MainLinks == Links
MainListings ==
    { NoContainerPage,
      [container |-> TRUE, links |-> <<>>],
      [container |-> TRUE, links |-> <<"A">>],
      [container |-> TRUE, links |-> <<"C", "A">>],
      [container |-> TRUE, links |-> <<"B", "A", "B">>] }
MainArticles ==
    { [title |-> [present |-> FALSE, text |-> <<>>], paras |-> <<>>],
      [title |-> [present |-> TRUE, text |-> <<"T", " ", EmDash, "S">>],
       paras |-> <<[bio |-> FALSE, kids |-> <<Text1>>]>>] }
MainTargets == {1, 2, 3}
MainFs ==
    { NoFs,
      [kind |-> "dir", parent |-> TRUE, entries |-> {1}, gen |-> 0],
      [kind |-> "file", parent |-> TRUE, entries |-> {}, gen |-> 0] }
InvalidRaws ==
    { [ValidRaw(1, 1) EXCEPT !.total_articles = PyInt(0)],
      [ValidRaw(1, 1) EXCEPT !.timeout = PyInt(61)] }

Init ==
    /\ Fresh
    /\ \/ \E n \in 0..MaxSeeds, target \in MainTargets :
              /\ raw = ValidRaw(n, target)
              /\ web \in [1..n -> MainListings]
       \/ /\ raw \in InvalidRaws
          /\ web \in [1..1 -> MainListings]
    /\ config = NoConfig
    /\ pc = "config"
    /\ site \in [MainLinks -> MainArticles]
    /\ urls = <<>>
    /\ seedIdx = 0
    /\ article_id = 0
    /\ nextUrl = 0
    /\ fs \in MainFs

Next ==
    \/ ConfigInit
    \/ CrawlerStart
    \/ SeedNext
    \/ SeedsExhausted
    \/ MakeRequestSleep
    \/ MakeRequestGet
    \/ SeedExtract
    \/ MainPrepare
    \/ ParseNext
    \/ MainDone
    \/ ParseFill
    \/ ToRaw
    \/ ToMeta

Spec == Init /\ [][Next]_vars

(***************************************************************************)
(* Properties.                                                             *)
(***************************************************************************)
Target == GetNumArticles(config)
NumSeeds == Len(GetSeedUrls(config))
Positions(op) == {p \in 1..Len(log) : log[p].op = op}
Min(a, b) == IF a <= b THEN a ELSE b

\* find_articles has returned to main() without raising.
Found == pc = "prepare"

\* The links of the listing pages of seeds 1..k, in one sequence.
RECURSIVE LinksUpTo(_)
LinksUpTo(k) == IF k = 0 THEN <<>> ELSE LinksUpTo(k - 1) \o web[k].links

\* The positions of x that hold a value for the first time.
FirstOccurrences(x) ==
    {i \in 1..Len(x) : \A j \in 1..(i - 1) : x[j] # x[i]}

\* The first n distinct values of x, in the order they first occur (all the
\* distinct values if there are fewer).
FirstDistinct(x, n) ==
    [k \in 1..Min(n, Cardinality(FirstOccurrences(x))) |->
        x[CHOOSE i \in FirstOccurrences(x) :
              Cardinality({j \in FirstOccurrences(x) : j <= i}) = k]]

NoDuplicates(x) == \A i, j \in 1..Len(x) : x[i] = x[j] => i = j

\* C1: when find_articles of a fresh Crawler returns, the frontier is the
\* first Target distinct links of the seeds' listing pages taken in
\* configuration and document order (all of them if fewer): no duplicate,
\* first-occurrence order, never more than Target links.
C1_Frontier ==
    /\ NoDuplicates(urls)
    /\ Len(urls) <= Target
    /\ (Found /\ \A i \in 1..Len(web) : web[i].container) =>
           urls = FirstDistinct(LinksUpTo(Len(web)), Target)

\* Two seeds, a duplicate across them dropped, the frontier just full.
C1_Witness ==
    /\ Found
    /\ Len(web) = 2
    /\ web[1] = [container |-> TRUE, links |-> <<"A", "B">>]
    /\ web[2] = [container |-> TRUE, links |-> <<"A", "C">>]
    /\ Target = 3
    /\ urls = <<"A", "B", "C">>

\* The frontier before the operation at position p of the history: the one
\* left by the last listing page processed before it.
FrontBefore(p) ==
    IF \E q \in Positions("links") : q < p
        THEN log[CHOOSE q \in Positions("links") :
                     /\ q < p
                     /\ \A r \in Positions("links") : r < p => r <= q].front
        ELSE <<>>

\* The frontier after seeds 1..j were processed (the crawl may have stopped
\* before seed j, leaving the frontier as it is now).
FrontAfter(j) ==
    IF j = 0 THEN <<>>
    ELSE IF \E q \in Positions("links") : log[q].idx = j
        THEN log[CHOOSE q \in Positions("links") : log[q].idx = j].front
        ELSE urls

SeedFetched(i) == \E p \in Positions("fetch_seed") : log[p].idx = i

\* C3: seeds are fetched in configuration order, each at most once; a seed
\* is fetched only while the frontier is short of Target, and, in a crawl
\* that returns, every seed reached with a short frontier is fetched; the
\* loop over a page's links stops at the link that fills the frontier and
\* nowhere else.
C3_SeedOrder ==
    /\ \A p, q \in Positions("fetch_seed") :
           p < q => log[p].idx < log[q].idx
    /\ \A p \in Positions("fetch_seed") :
           /\ log[p].idx = Cardinality({q \in Positions("fetch_seed") : q <= p})
           /\ Len(FrontBefore(p)) < Target
    /\ \A p \in Positions("get") :
           Cardinality({q \in Positions("get") : log[q].idx = log[p].idx}) = 1
    /\ \A p \in Positions("links") :
           LET page == web[log[p].idx].links
               before == FrontBefore(p)
           IN  /\ log[p].cnt <= Len(page)
               /\ log[p].cnt < Len(page) => Len(log[p].front) >= Target
               /\ Len(log[p].front) >= Target =>
                      /\ log[p].cnt >= 1
                      /\ Cardinality(Range(before) \cup
                             {page[j] : j \in 1..(log[p].cnt - 1)}) < Target
                      /\ \A q \in Positions("fetch_seed") : q < p
    /\ Found =>
           \A i \in 1..NumSeeds :
               SeedFetched(i) <=> Len(FrontAfter(i - 1)) < Target

\* The first seed yields no link, so the second is fetched; its first link
\* fills the frontier and its second link is not processed.
C3_Witness ==
    /\ Found
    /\ NumSeeds = 2
    /\ web[1] = [container |-> TRUE, links |-> <<>>]
    /\ Len(web[2].links) = 2
    /\ SeedFetched(2)
    /\ \E p \in Positions("links") : log[p].idx = 2 /\ log[p].cnt = 1

\* The operations of the driver, in the order main() performs them on a
\* frontier from its k-th URL on: parse with identifier k (the sleep and the
\* GET of its request), store the raw text, store the metadata.
RECURSIVE RecordOps(_, _)
RecordOps(frontier, k) ==
    IF k > Len(frontier) THEN <<>>
    ELSE << Ev("parse", k, frontier[k], "ok"),
            Ev("sleep", 0, "", "ok"),
            Ev("get", k, frontier[k], "ok"),
            Ev("to_raw", k, frontier[k], "ok"),
            Ev("to_meta", k, frontier[k], "ok") >>
         \o RecordOps(frontier, k + 1)

CrawlOps == {"fetch_seed", "sleep", "get", "links"}

\* C4: a run of main() that ends without raising has performed exactly:
\* the validation, the crawl (fetches of seeds only), the preparation of the
\* output area, then for k = 1..n in frontier order the parse of the k-th
\* URL with identifier k, its raw-text store and its metadata store; and in
\* any run the identifiers given to the parsers are 1, 2, ... in order.
C4_DriverSequence ==
    /\ \A p \in Positions("parse") :
           /\ log[p].idx = Cardinality({q \in Positions("parse") : q <= p})
           /\ log[p].url = urls[log[p].idx]
    /\ pc = "done" =>
           \E p \in Positions("prepare") :
               /\ p >= 3
               /\ log[1] = Ev("config", 0, "", "ok")
               /\ log[2] = Ev("find_articles", 0, "", "ok")
               /\ \A q \in 3..(p - 1) :
                      log[q].op \in CrawlOps /\ log[q].url = ""
               /\ log[p] = Ev("prepare", 0, "", "none")
               /\ SubSeq(log, p + 1, Len(log)) = RecordOps(urls, 1)

\* A run that ends after two records were parsed and stored.
C4_Witness ==
    /\ pc = "done"
    /\ Len(urls) = 2
    /\ log[Len(log)] = Ev("to_meta", 2, urls[2], "ok")

\* The operation raised: its outcome says so, or it is the GET of a listing
\* page without the listing heading or of an article page without a title,
\* which the caller fails on.
Raised(e) ==
    \/ e.op \in {"config", "get", "to_raw", "to_meta"} /\ e.out # "ok"
    \/ e.op = "prepare" /\ e.out # "none"
    \/ e.op = "get" /\ e.url = "" /\ ~web[e.idx].container
    \/ e.op = "get" /\ e.url \in DOMAIN site /\ ~site[e.url].title.present

\* C5: an operation that raises is the last operation of the run; a run
\* whose configuration is rejected performs nothing but the validation.
C5_HaltOnRaise ==
    /\ \A p \in 1..(Len(log) - 1) : ~Raised(log[p])
    /\ (pc # "config" /\ ValidateConfigContent(raw) # "ok") =>
           log = <<Ev("config", 0, "", ValidateConfigContent(raw))>>
    /\ error # "none" => pc = "failed"

\* The second article page has no title: its record is not stored.
C5_Witness ==
    /\ pc = "failed"
    /\ Len(urls) = 2
    /\ log[Len(log)] = Ev("get", 2, urls[2], "ok")
    /\ ~site[urls[2]].title.present

Calls == Positions("fetch_seed") \cup Positions("parse")
InRequest == pc \in {"request_sleep", "request_get"}

\* C9: every call of make_request sleeps once, for 1 to 5 seconds, and then
\* issues one GET; no GET comes without the sleep of its own call before it
\* and none is repeated; the GETs are as many as the seed pages fetched plus
\* the articles parsed.
C9_OneDelayOneGet ==
    /\ \A p \in Positions("sleep") : p > 1 /\ (p - 1) \in Calls
    /\ \A p \in Positions("get") :
           /\ p > 2
           /\ log[p - 1].op = "sleep"
           /\ log[p].idx = log[p - 2].idx
           /\ log[p].url = log[p - 2].url
    /\ \A p \in Calls : p < Len(log) => log[p + 1].op = "sleep"
    /\ \A p \in Positions("sleep") : p < Len(log) => log[p + 1].op = "get"
    /\ pc = "request_get" =>
           /\ delay \in 1..5
           /\ log[Len(log)].op = "sleep"
    /\ pc # "request_get" => delay = 0
    /\ pc = "request_sleep" => Len(log) \in Calls
    /\ ~InRequest =>
           Cardinality(Positions("get")) = Cardinality(Calls)
    /\ Cardinality(Positions("get")) <= Cardinality(Calls)
    /\ Cardinality(Positions("sleep")) <= Cardinality(Calls)

\* Two seed pages and an article were fetched, and the GET of a second
\* article failed.
C9_Witness ==
    /\ pc = "failed"
    /\ Cardinality(Positions("fetch_seed")) = 2
    /\ Cardinality(Positions("parse")) = 2
    /\ log[Len(log)].op = "get"
    /\ log[Len(log)].out = "RequestException"

\* parse() has returned to main() without raising.
Parsed == pc = "to_raw"
ThePage == site[article.url]

\* The text nodes of the paragraphs from the k-th on, in document order.
RECURSIVE TextNodes(_, _)
TextNodes(paras, k) ==
    IF k > Len(paras) THEN <<>>
    ELSE paras[k].kids \o TextNodes(paras, k + 1)

\* The characters of a sequence of texts, one text after the other.
RECURSIVE Joined(_)
Joined(texts) ==
    IF texts = <<>> THEN <<>>
    ELSE Joined(SubSeq(texts, 1, Len(texts) - 1)) \o texts[Len(texts)]

\* C8: after one parse() of a fresh parser the body text is the text of
\* the page's paragraphs joined in document order with nothing in between,
\* empty when the page has no paragraph; parse() raises only for a page
\* without a title, never for the lack of paragraphs.
C8_BodyText ==
    /\ Parsed =>
           /\ article.text = Joined(TextNodes(ThePage.paras, 1))
           /\ ThePage.paras = <<>> => article.text = <<>>
    /\ (pc = "failed" /\ error = "AttributeError") => ~ThePage.title.present

\* The paragraphs "Hi " and "you" give "Hi you".
C8_Witness ==
    /\ Parsed
    /\ Len(ThePage.paras) = 2
    /\ ThePage.paras[1].kids = <<Text1>>
    /\ ThePage.paras[2].kids = <<Text2>>
    /\ article.text = <<"H", "i", " ", "y", "o", "u">>

\* C6 as claimed: after parse() the author is one string, the text of the
\* bio-name paragraph if the page has one and "NOT FOUND" if not.
C6_AuthorIsString ==
    Parsed =>
        article.author = IF HasBio(ThePage)
                             THEN PyStr(ElementText(FirstBio(ThePage).kids))
                             ELSE PyStr(NotFound)

\* What the code leaves instead: always a list, of the characters of
\* "NOT FOUND" or of the children of the bio-name paragraph.
C6_AuthorIsList ==
    Parsed =>
        /\ article.author.t = "list"
        /\ ~HasBio(ThePage) =>
               /\ Len(article.author.l) = Len(NotFound)
               /\ \A i \in 1..Len(NotFound) :
                      article.author.l[i] = PyStr(<<NotFound[i]>>)

\* C10: prepare_environment on a path that is absent or a directory, empty
\* or not, leaves an empty directory there, created by that call; a second
\* call right after leaves the same, again a directory of its own; it
\* raises only when the path is a file.
SameTree(f, g) ==
    /\ f.kind = g.kind
    /\ f.parent = g.parent
    /\ f.entries = g.entries

C10_PrepareIdempotent ==
    /\ (once.n >= 1 /\ error = "none") =>
           /\ fs.kind = "dir"
           /\ fs.parent
           /\ fs.entries = {}
           /\ fs.gen = calls
    /\ (once.n >= 2 /\ error = "none") =>
           /\ SameTree(fs, once.fs)
           /\ fs.gen = once.fs.gen + once.n - 1
    /\ error # "none" => log[Len(log)].out = "file"

\* Two calls in a row, the first on a directory that held entries.
C10_Witness ==
    /\ once.n = 2
    /\ error = "none"
    /\ Len(log) >= 2
    /\ log[Len(log) - 1].out = "dir"
    /\ log[Len(log) - 1].idx > 0
    /\ fs.entries = {}

(***************************************************************************)
(* Configuration validation as claimed, with bool and int distinct types.  *)
(***************************************************************************)
IsInteger(v) == v.t = "int"

ClaimedValidation(c) ==
    IF \/ c.seed_urls.t # "list"
       \/ \E i \in 1..Len(c.seed_urls.l) :
              \/ c.seed_urls.l[i].t # "str"
              \/ ~StrContains(SiteUrl, c.seed_urls.l[i].s)
        THEN "IncorrectSeedURLError"
    ELSE IF ~IsInteger(c.total_articles) \/ c.total_articles.n <= 0
        THEN "IncorrectNumberOfArticlesError"
    ELSE IF c.total_articles.n > 150
        THEN "NumberOfArticlesOutOfRangeError"
    ELSE IF c.headers.t # "dict" THEN "IncorrectHeadersError"
    ELSE IF c.encoding.t # "str" THEN "IncorrectEncodingError"
    ELSE IF \/ ~IsInteger(c.timeout)
            \/ ~(0 < c.timeout.n /\ c.timeout.n <= 60)
        THEN "IncorrectTimeoutError"
    ELSE IF \/ c.should_verify_certificate.t # "bool"
            \/ c.headless_mode.t # "bool"
        THEN "IncorrectVerifyError"
    ELSE "ok"

Constructed == pc = "crawler"
Rejected == pc = "failed"

\* C2 as claimed: construction fails with the error of the first violated
\* rule, and succeeds only when no rule is violated.
C2_FirstViolatedRule ==
    /\ Rejected => error = ClaimedValidation(raw)
    /\ Constructed => ClaimedValidation(raw) = "ok"

\* What the code does: the two agree on every configuration file whose
\* target count and timeout are not booleans.
C2_ExceptBooleans ==
    (raw.total_articles.t # "bool" /\ raw.timeout.t # "bool") =>
        C2_FirstViolatedRule

IsPrefix(x, y) == Len(x) <= Len(y) /\ SubSeq(y, 1, Len(x)) = x

\* C7 as claimed: a constructed Configuration holds a non-empty list of
\* strings, each beginning with the site prefix.
C7_SeedUrlsPrefixed ==
    Constructed =>
        /\ config.seed_urls.t = "list"
        /\ Len(config.seed_urls.l) >= 1
        /\ \A i \in 1..Len(config.seed_urls.l) :
               /\ config.seed_urls.l[i].t = "str"
               /\ IsPrefix(SiteUrl, config.seed_urls.l[i].s)

\* What the code does: the list may be empty, and each string holds the
\* site URL somewhere.
C7_SeedUrlsContain ==
    Constructed =>
        /\ config.seed_urls.t = "list"
        /\ \A i \in 1..Len(config.seed_urls.l) :
               /\ config.seed_urls.l[i].t = "str"
               /\ StrContains(SiteUrl, config.seed_urls.l[i].s)

=============================================================================
